---- MODULE Spec2Model ----
(***************************************************************************)
(* The post-authoring pipeline of the blog application: Post.save, the     *)
(* post_save receiver create_post_related_objects, PostVersion.delete, the *)
(* PostStatistics counter methods and the cascades declared on the models. *)
(* The relational store is the record db, one field per table; every       *)
(* table is a set of rows, every row carries its auto-increment id.        *)
(* Every ORM statement is an operator from a store to an outcome           *)
(* [ok, db]: ok = FALSE is the exception the statement raises, db the      *)
(* store it leaves behind (autocommit: earlier statements stay written).   *)
(***************************************************************************)
EXTENDS Integers, Sequences, FiniteSets, TLC

(* ------------------------------ bounds -------------------------------- *)

\* Posts ever inserted (post ids are never reused).
MaxPosts == 2

\* PostVersion rows ever inserted.
MaxVersionRows == 3

\* Posts ever inserted in the runs that also exercise the statistics calls.
MaxStatsPosts == 1

\* Posts ever inserted in the runs whose saves interleave.
MaxConcPosts == 1

\* Cap of the statistics counters.
MaxCount == 1

\* Ticks of the wall clock.
MaxTime == 1

\* Comment rows ever inserted.
MaxCommentRows == 4

\* Draft rows ever inserted.
MaxDrafts == 2

\* Users ever inserted.
MaxUsers == 2

\* Requests the first worker handles.
MaxRequests == 101

\* Requests the second worker handles, overlapping those of the first.
MaxOverlapping == 1

\* Cache entries that run out.
MaxExpiries == 1

(* ----------------------------- constants ------------------------------ *)

\* Python's None / SQL NULL, and a value that is present.
None == << >>

Some(x) == << x >>

\* The value of a field that is not None.
Val(o) == o[1]

\* The Author rows of the store (apps.users.models.Author), as their ids.
Authors == {"author1", "author2"}

\* Callers that hold model instances in memory (requests, shells, tests).
Procs == {"p1", "p2"}

\* Titles and contents a caller passes to create and update.
UserTitles == {"Test Post", "Updated Title"}

UserContents == {"This is test content"}

\* signals.py POST_TITLES: one of its thirty entries stands for the tuple.
POST_TITLES ==
    { "Getting Started with Django ORM: A Comprehensive Guide" }

\* signals.py POST_CONTENT: one of its ten entries stands for the tuple.
POST_CONTENT ==
    { "Django's ORM (Object-Relational Mapping) is one of the most powerful features of the framework." }

\* signals.py random_comments: one of its twenty entries stands for the tuple.
random_comments ==
    { "Great article! This really helped me understand the topic better." }

\* signals.py random_notes: one of its fifteen entries stands for the tuple.
random_notes ==
    { "Save this for later reference - great resource!" }

\* signals.py notification_messages: one of its five entries stands for the tuple.
notification_messages == { "New Comment" }

\* models.py Notification.NOTIFICATION_TYPES: the declared enum values.
NOTIFICATION_TYPES == { "comment", "like", "follow", "bookmark", "share" }

\* The client addresses requests carry.
ClientIps == {"203.0.113.7", "198.51.100.9"}

\* The draws of random.choice in one run of create_post_related_objects.
Choices ==
    [ title : POST_TITLES, content : POST_CONTENT, comment : random_comments,
      note : random_notes, ntype : notification_messages,
      message : notification_messages ]

(* ------------------------------ state --------------------------------- *)

VARIABLES
    db,      \* the relational store
    clock,   \* timezone.now()
    handle,  \* handle[p]: the PostStatistics instance p holds in memory, or None
    pc,      \* pc[p]: the statement of Post.save p is about to run
    inst,    \* inst[p]: the Post instance p saves, or has saved last
    local,   \* local[p]: the call p makes (op), the count it read (n), the
             \* receiver statement it is at (k), how its last call ended (ok)
    ret,     \* the call that returned last, of those run without interleaving
    cache,   \* django.core.cache: cache[ip] is the entry of key rate_limit:<ip>
    http     \* the requests the workers handle: request[p] and count[p] are
             \* the request p is at and the count it read, status[p] its last
             \* answer, begun[p] the requests it has taken; forwarded[ip] counts
             \* the requests passed on during the life of the entry of ip, and
             \* expired the entries that ran out

vars == <<db, clock, handle, pc, inst, local, ret, cache, http>>

EmptyDb ==
    [ posts |-> {}, versions |-> {}, statistics |-> {}, schedules |-> {},
      comments |-> {}, bookmarks |-> {}, notifications |-> {}, drafts |-> {},
      users |-> {}, authors |-> {}, nextUser |-> 1, nextAuthor |-> 1,
      nextPost |-> 1, nextVersion |-> 1, nextStatistics |-> 1,
      nextSchedule |-> 1, nextComment |-> 1, nextBookmark |-> 1,
      nextNotification |-> 1, nextDraft |-> 1 ]

Ok(d) == [ok |-> TRUE, db |-> d]

Raise(d) == [ok |-> FALSE, db |-> d]

(* ------------------------------ queries ------------------------------- *)

PostExists(d, id) == \E r \in d.posts : r.id = id

PostRow(d, id) == CHOOSE r \in d.posts : r.id = id

\* post.versions: the reverse manager of PostVersion.post.
VersionsOf(d, id) == { v \in d.versions : v.post = id }

\* post.versions.count()
VersionCount(d, id) == Cardinality(VersionsOf(d, id))

StatisticsOf(d, id) == { s \in d.statistics : s.post = id }

SchedulesOf(d, id) == { s \in d.schedules : s.post = id }

CommentsOf(d, id) == { c \in d.comments : c.post = id }

BookmarksOf(d, id) == { b \in d.bookmarks : b.post = id }

(* --------------------- Post.save, row statements ---------------------- *)

\* Model.save of a Post instance (super().save in Post.save): with no pk an
\* INSERT under the next id; with a pk an UPDATE of that row and, when the
\* UPDATE matched no row, an INSERT under that pk. The outcome's created is
\* what post_save receives, pk the instance's pk afterwards.
SuperSave(d, i, now) ==
    IF i.pk = None
    THEN [ ok |-> TRUE, created |-> TRUE, pk |-> d.nextPost,
           db |-> [d EXCEPT !.posts = @ \cup
                       { [ id |-> d.nextPost, title |-> i.title,
                           content |-> i.content, author |-> i.author,
                           created_at |-> now ] },
                     !.nextPost = @ + 1] ]
    ELSE IF PostExists(d, Val(i.pk))
    THEN [ ok |-> TRUE, created |-> FALSE, pk |-> Val(i.pk),
           db |-> [d EXCEPT !.posts =
                       { IF r.id = Val(i.pk)
                         THEN [r EXCEPT !.title = i.title, !.content = i.content,
                                        !.author = i.author]
                         ELSE r : r \in @ }] ]
    ELSE [ ok |-> TRUE, created |-> TRUE, pk |-> Val(i.pk),
           db |-> [d EXCEPT !.posts = @ \cup
                       { [ id |-> Val(i.pk), title |-> i.title,
                           content |-> i.content, author |-> i.author,
                           created_at |-> now ] }] ]

(* ------------------------ PostVersion rows ---------------------------- *)

\* PostVersion.save: a version_number that is falsy (0) is replaced by the
\* count of the post's versions plus one; then the INSERT, which the
\* foreign key to posts refuses when the post row is gone.
PostVersionSave(d, post, title, content, number, author) ==
    LET n == IF number = 0 THEN VersionCount(d, post) + 1 ELSE number
    IN  IF ~PostExists(d, post)
        THEN Raise(d)
        ELSE Ok([d EXCEPT !.versions = @ \cup
                     { [ id |-> d.nextVersion, post |-> post, title |-> title,
                         content |-> content, version_number |-> n,
                         created_by |-> Some(author) ] },
                   !.nextVersion = @ + 1])

\* The rows self.versions.update_or_create(version_number = n + 1, ...) looks up.
UocMatches(d, i, n) ==
    { v \in VersionsOf(d, Val(i.pk)) : v.version_number = n + 1 }

\* update_or_create when the lookup matched: more than one row raises
\* MultipleObjectsReturned, one row is written over with the defaults.
UocUpdate(d, i, n) ==
    IF Cardinality(UocMatches(d, i, n)) > 1
    THEN Raise(d)
    ELSE Ok([d EXCEPT !.versions =
                 { IF v \in UocMatches(d, i, n)
                   THEN [v EXCEPT !.title = i.title, !.content = i.content,
                                  !.created_by = Some(i.author)]
                   ELSE v : v \in @ }])

\* A bug UocCreate could have: the count itself taken as the new number.
UocCreateNumberIsCount(d, i, n) ==
    PostVersionSave(d, Val(i.pk), i.title, i.content, n, i.author)

\* update_or_create when the lookup matched nothing: the row is created.
UocCreate(d, i, n) ==
    PostVersionSave(d, Val(i.pk), i.title, i.content, n + 1, i.author)

\* self.versions.update_or_create(version_number = n + 1, defaults = {...})
UpdateOrCreate(d, i, n) ==
    IF UocMatches(d, i, n) = {} THEN UocCreate(d, i, n) ELSE UocUpdate(d, i, n)

(* -------------------- create_post_related_objects --------------------- *)

\* Post.objects.filter(id=instance.id).update(title=random, content=random):
\* the row changes, the instance in memory does not.
HandlerRandomize(d, i, ch) ==
    Ok([d EXCEPT !.posts =
            { IF r.id = Val(i.pk)
              THEN [r EXCEPT !.title = ch.title, !.content = ch.content]
              ELSE r : r \in @ }])

\* PostStatistics.objects.get_or_create(post=instance, defaults={...})
HandlerStatistics(d, i, now) ==
    IF StatisticsOf(d, Val(i.pk)) # {}
    THEN Ok(d)
    ELSE IF ~PostExists(d, Val(i.pk))
    THEN Raise(d)
    ELSE Ok([d EXCEPT !.statistics = @ \cup
                 { [ id |-> d.nextStatistics, post |-> Val(i.pk),
                     view_count |-> 0, like_count |-> 0, share_count |-> 0,
                     avg_read_time |-> None, last_viewed_at |-> Some(now) ] },
               !.nextStatistics = @ + 1])

\* A bug HandlerVersion could have: the snapshot taken from the stored row,
\* which the receiver has just overwritten, instead of from the instance.
HandlerVersionFromRow(d, i) ==
    IF ~PostExists(d, Val(i.pk))
    THEN Raise(d)
    ELSE PostVersionSave(d, Val(i.pk), PostRow(d, Val(i.pk)).title,
                         PostRow(d, Val(i.pk)).content, 1, i.author)

\* PostVersion.objects.create(post=instance, title=instance.title, ...,
\* version_number=1, created_by=instance.author)
HandlerVersion(d, i) ==
    PostVersionSave(d, Val(i.pk), i.title, i.content, 1, i.author)

\* PostSchedule.objects.create(post=instance, scheduled_for=now, ...)
HandlerSchedule(d, i, now) ==
    IF ~PostExists(d, Val(i.pk))
    THEN Raise(d)
    ELSE Ok([d EXCEPT !.schedules = @ \cup
                 { [ id |-> d.nextSchedule, post |-> Val(i.pk),
                     scheduled_for |-> now, published_at |-> None,
                     is_published |-> FALSE, retry_count |-> 0 ] },
               !.nextSchedule = @ + 1])

\* Comment.objects.create(post=instance, content=random, author=..., is_approved=True)
HandlerComment(d, i, ch) ==
    IF ~PostExists(d, Val(i.pk))
    THEN Raise(d)
    ELSE Ok([d EXCEPT !.comments = @ \cup
                 { [ id |-> d.nextComment, post |-> Val(i.pk),
                     author |-> Some(i.author), parent |-> None,
                     content |-> ch.comment, rating |-> None,
                     is_approved |-> TRUE ] },
               !.nextComment = @ + 1])

\* A bug HandlerBookmark could have: Bookmark declared without
\* unique_together, so a second row of the pair is inserted.
HandlerBookmarkNotUnique(d, i, ch) ==
    IF ~PostExists(d, Val(i.pk))
    THEN Raise(d)
    ELSE Ok([d EXCEPT !.bookmarks = @ \cup
                 { [ id |-> d.nextBookmark, user |-> i.author,
                     post |-> Val(i.pk), notes |-> ch.note ] },
               !.nextBookmark = @ + 1])

\* Bookmark.objects.create(user=instance.author, post=instance, notes=random):
\* unique_together (user, post) refuses a second row of the pair.
HandlerBookmark(d, i, ch) ==
    IF \/ ~PostExists(d, Val(i.pk))
       \/ \E b \in d.bookmarks : b.user = i.author /\ b.post = Val(i.pk)
    THEN Raise(d)
    ELSE Ok([d EXCEPT !.bookmarks = @ \cup
                 { [ id |-> d.nextBookmark, user |-> i.author,
                     post |-> Val(i.pk), notes |-> ch.note ] },
               !.nextBookmark = @ + 1])

\* Notification.objects.create(recipient=..., content_object_id=instance.id,
\* notification_type=random.choice(notification_messages), message=random, ...):
\* content_object_id is a plain integer, and choices are not checked by save.
HandlerNotification(d, i, ch) ==
    Ok([d EXCEPT !.notifications = @ \cup
            { [ id |-> d.nextNotification, recipient |-> i.author,
                notification_type |-> ch.ntype, content_object_id |-> Val(i.pk),
                message |-> ch.message, is_read |-> FALSE ] },
          !.nextNotification = @ + 1])

\* The statements of the receiver's "if created:" block, in order.
HandlerSteps == 7

HandlerStep(k, d, i, now, ch) ==
    CASE k = 1 -> HandlerRandomize(d, i, ch)
      [] k = 2 -> HandlerStatistics(d, i, now)
      [] k = 3 -> HandlerVersion(d, i)
      [] k = 4 -> HandlerSchedule(d, i, now)
      [] k = 5 -> HandlerComment(d, i, ch)
      [] k = 6 -> HandlerBookmark(d, i, ch)
      [] k = 7 -> HandlerNotification(d, i, ch)

\* Statements k..7 of the block; the first one that raises ends the run.
RECURSIVE HandlerFrom(_, _, _, _, _)
HandlerFrom(k, d, i, now, ch) ==
    IF k > HandlerSteps
    THEN Ok(d)
    ELSE LET r == HandlerStep(k, d, i, now, ch)
         IN  IF r.ok THEN HandlerFrom(k + 1, r.db, i, now, ch) ELSE r

\* The post_save receiver of Post.
create_post_related_objects(d, i, created, now, ch) ==
    IF created THEN HandlerFrom(1, d, i, now, ch) ELSE Ok(d)

(* ------------------------------ Post.save ----------------------------- *)

\* Post.save run without interruption: the version write when the instance
\* has a pk, then Model.save, then the post_save receiver.
Post_save(d, i, now, ch) ==
    LET r1 == IF i.pk # None
              THEN UpdateOrCreate(d, i, VersionCount(d, Val(i.pk)))
              ELSE Ok(d)
        r2 == SuperSave(r1.db, i, now)
        r3 == create_post_related_objects(r2.db, [i EXCEPT !.pk = Some(r2.pk)],
                                          r2.created, now, ch)
    IN  IF ~r1.ok
        THEN [ok |-> FALSE, db |-> r1.db, pk |-> i.pk]
        ELSE [ok |-> r3.ok, db |-> r3.db, pk |-> Some(r2.pk)]

(* ----------------------------- deletions ------------------------------ *)

\* A bug CommentClosure could have: only the direct replies are collected.
CommentClosureDirectOnly(d, S) ==
    S \cup { c \in d.comments : c.parent # None /\ \E x \in S : x.id = Val(c.parent) }

\* The comments in S and every reply below them (Comment.parent, CASCADE).
RECURSIVE CommentClosure(_, _)
CommentClosure(d, S) ==
    LET T == S \cup { c \in d.comments :
                        c.parent # None /\ \E x \in S : x.id = Val(c.parent) }
    IN  IF T = S THEN S ELSE CommentClosure(d, T)

\* A bug PostDelete could have: PostStatistics.post declared without CASCADE.
PostDeleteKeepsStatistics(d, id) ==
    Ok([d EXCEPT !.posts = { r \in @ : r.id # id },
                 !.versions = @ \ VersionsOf(d, id),
                 !.schedules = @ \ SchedulesOf(d, id),
                 !.comments = @ \ CommentClosure(d, CommentsOf(d, id)),
                 !.bookmarks = @ \ BookmarksOf(d, id)])

\* post.delete(): the collector removes, in one transaction, the post and
\* the rows whose foreign key to it is on_delete=CASCADE. Notifications
\* hold the post's id as a plain integer and stay.
PostDelete(d, id) ==
    Ok([d EXCEPT !.posts = { r \in @ : r.id # id },
                 !.versions = @ \ VersionsOf(d, id),
                 !.statistics = @ \ StatisticsOf(d, id),
                 !.schedules = @ \ SchedulesOf(d, id),
                 !.comments = @ \ CommentClosure(d, CommentsOf(d, id)),
                 !.bookmarks = @ \ BookmarksOf(d, id)])

\* PostVersion.post is declared without null=True.
VersionPostNullable == FALSE

\* PostVersion.delete: self.post.versions.remove(self), then Model.delete.
\* The reverse manager of a foreign key has a remove method only when the
\* key is nullable; otherwise the attribute lookup raises AttributeError
\* before anything is deleted.
PostVersion_delete(d, vid) ==
    IF ~VersionPostNullable
    THEN Raise(d)
    ELSE Ok([d EXCEPT !.versions = { v \in @ : v.id # vid }])

\* The admin's "delete selected" action on PostVersionAdmin:
\* queryset.delete(), which does not call PostVersion.delete.
VersionQuerysetDelete(d, vid) ==
    Ok([d EXCEPT !.versions = { v \in @ : v.id # vid }])

(* --------------------------- PostStatistics --------------------------- *)

\* Model.save of a PostStatistics instance: UPDATE of the row with its pk,
\* all fields written from the instance; when no row has that pk an INSERT,
\* which the foreign key and the one-to-one's unique index may refuse.
StatisticsSave(d, h) ==
    IF \E s \in d.statistics : s.id = h.id
    THEN Ok([d EXCEPT !.statistics = { IF s.id = h.id THEN h ELSE s : s \in @ }])
    ELSE IF PostExists(d, h.post) /\ StatisticsOf(d, h.post) = {}
    THEN Ok([d EXCEPT !.statistics = @ \cup {h}])
    ELSE Raise(d)

\* A bug update_view_count could have: the save also resets like_count.
update_view_count_resets_likes(d, h) ==
    LET h2 == [h EXCEPT !.view_count = @ + 1, !.like_count = 0]
    IN  [handle |-> h2, res |-> StatisticsSave(d, h2)]

\* What update_view_count is not: an increment of the stored value
\* (F('view_count') + 1), whatever the instance in memory holds.
update_view_count_of_stored(d, h) ==
    LET cur == { s \in d.statistics : s.id = h.id }
        h2 == [h EXCEPT !.view_count =
                   IF cur = {} THEN @ + 1 ELSE (CHOOSE s \in cur : TRUE).view_count + 1]
    IN  [handle |-> h2, res |-> StatisticsSave(d, h2)]

\* Each method's outcome: the instance afterwards, and the save's outcome.
update_view_count(d, h) ==
    LET h2 == [h EXCEPT !.view_count = @ + 1]
    IN  [handle |-> h2, res |-> StatisticsSave(d, h2)]

update_like_count(d, h) ==
    LET h2 == [h EXCEPT !.like_count = @ + 1]
    IN  [handle |-> h2, res |-> StatisticsSave(d, h2)]

update_share_count(d, h) ==
    LET h2 == [h EXCEPT !.share_count = @ + 1]
    IN  [handle |-> h2, res |-> StatisticsSave(d, h2)]

\* self.post.statistics is read from the store; a missing post or a missing
\* statistics row raises DoesNotExist before the instance changes.
update_avg_read_time(d, h) ==
    IF ~PostExists(d, h.post) \/ StatisticsOf(d, h.post) = {}
    THEN [handle |-> h, res |-> Raise(d)]
    ELSE LET cur == CHOOSE s \in StatisticsOf(d, h.post) : TRUE
             h2 == [h EXCEPT !.avg_read_time = cur.avg_read_time]
         IN  [handle |-> h2, res |-> StatisticsSave(d, h2)]

update_last_viewed_at(d, h, now) ==
    LET h2 == [h EXCEPT !.last_viewed_at = Some(now)]
    IN  [handle |-> h2, res |-> StatisticsSave(d, h2)]

(* ------------------------------ actions ------------------------------- *)

\* The record of a returned call: the call, whether it returned normally
\* (ok) or raised, the id of the row it was about, and for a delete() the
\* number of rows it reports deleted.
Returned(op, ok, pk) == [op |-> op, ok |-> ok, pk |-> pk, deleted |-> 0]

NoInstance == [pk |-> None, title |-> "", content |-> "", author |-> ""]

Init ==
    /\ db = EmptyDb
    /\ clock = 0
    /\ handle = [p \in Procs |-> None]
    /\ pc = [p \in Procs |-> "idle"]
    /\ inst = [p \in Procs |-> NoInstance]
    /\ local = [p \in Procs |-> [op |-> "none", n |-> 0, k |-> 0, ok |-> TRUE]]
    /\ ret = Returned("none", TRUE, None)
    /\ cache = [ip \in ClientIps |-> None]
    /\ http = [ request |-> [p \in Procs |-> None],
                count |-> [p \in Procs |-> 0],
                status |-> [p \in Procs |-> 0],
                begun |-> [p \in Procs |-> 0],
                forwarded |-> [ip \in ClientIps |-> 0],
                expired |-> 0 ]

Tick ==
    /\ clock < MaxTime
    /\ clock' = clock + 1
    /\ UNCHANGED <<cache, http, db, handle, pc, inst, local, ret>>

\* Post.objects.create(title=t, content=c, author=a), run to its return.
Create(t, c, a) ==
    /\ db.nextPost <= MaxPosts
    /\ db.nextVersion <= MaxVersionRows
    /\ \E ch \in Choices :
         LET i == [pk |-> None, title |-> t, content |-> c, author |-> a]
             r == Post_save(db, i, clock, ch)
         IN  /\ db' = r.db
             /\ ret' = Returned("create", r.ok, r.pk)
    /\ UNCHANGED <<cache, http, clock, handle, pc, inst, local>>

\* The instances of post id a caller may save: loaded from the stored row,
\* each of title and content either left as loaded or assigned by the caller.
Instances(id) ==
    { [pk |-> Some(id), title |-> t, content |-> c, author |-> PostRow(db, id).author] :
        t \in UserTitles \cup {PostRow(db, id).title},
        c \in UserContents \cup {PostRow(db, id).content} }

\* post.title = t; post.content = c; post.save(), run to its return.
Update(id) ==
    /\ PostExists(db, id)
    /\ db.nextVersion <= MaxVersionRows
    /\ \E i \in Instances(id), ch \in Choices :
         LET r == Post_save(db, i, clock, ch)
         IN  /\ db' = r.db
             /\ ret' = Returned("update", r.ok, r.pk)
    /\ UNCHANGED <<cache, http, clock, handle, pc, inst, local>>

\* version.delete() on a stored PostVersion.
DeleteVersion(v) ==
    /\ v \in db.versions
    /\ LET r == PostVersion_delete(db, v.id)
       IN  /\ db' = r.db
           /\ ret' = Returned("deleteVersion", r.ok, Some(v.id))
    /\ UNCHANGED <<cache, http, clock, handle, pc, inst, local>>

\* The admin's "delete selected" on one PostVersion.
AdminDeleteVersion(v) ==
    /\ v \in db.versions
    /\ LET r == VersionQuerysetDelete(db, v.id)
       IN  /\ db' = r.db
           /\ ret' = Returned("adminDeleteVersion", r.ok, Some(v.id))
    /\ UNCHANGED <<cache, http, clock, handle, pc, inst, local>>

\* post.delete() on a stored Post.
DeletePost(id) ==
    /\ PostExists(db, id)
    /\ LET r == PostDelete(db, id)
       IN  /\ db' = r.db
           /\ ret' = Returned("deletePost", r.ok, Some(id))
    /\ UNCHANGED <<cache, http, clock, handle, pc, inst, local>>

\* p loads the statistics row of a post: PostStatistics.objects.get(post=id).
LoadStatistics(p, s) ==
    /\ s \in db.statistics
    /\ handle[p] # Some(s)
    /\ handle' = [handle EXCEPT ![p] = Some(s)]
    /\ UNCHANGED <<cache, http, db, clock, pc, inst, ret>>

\* One of the counter methods on the instance p holds.
Counter(p, op, out) ==
    /\ handle' = [handle EXCEPT ![p] = Some(out.handle)]
    /\ db' = out.res.db
    /\ ret' = Returned(op, out.res.ok, Some(out.handle.post))
    /\ UNCHANGED <<cache, http, clock, pc, inst>>

View(p) ==
    /\ handle[p] # None
    /\ Val(handle[p]).view_count < MaxCount
    /\ Counter(p, "view", update_view_count(db, Val(handle[p])))

Like(p) ==
    /\ handle[p] # None
    /\ Val(handle[p]).like_count < MaxCount
    /\ Counter(p, "like", update_like_count(db, Val(handle[p])))

Share(p) ==
    /\ handle[p] # None
    /\ Val(handle[p]).share_count < MaxCount
    /\ Counter(p, "share", update_share_count(db, Val(handle[p])))

AvgReadTime(p) ==
    /\ handle[p] # None
    /\ Counter(p, "avg_read_time", update_avg_read_time(db, Val(handle[p])))

LastViewed(p) ==
    /\ handle[p] # None
    /\ Counter(p, "last_viewed", update_last_viewed_at(db, Val(handle[p]), clock))

\* Deletions: each is one statement or one transaction.
Deletions ==
    \/ \E v \in db.versions : DeleteVersion(v)
    \/ \E v \in db.versions : AdminDeleteVersion(v)
    \/ \E id \in 1..MaxPosts : DeletePost(id)

\* The calls of caller p on PostStatistics instances.
Counters(p) ==
    \/ (\E s \in db.statistics : LoadStatistics(p, s)) /\ UNCHANGED local
    \/ View(p) /\ UNCHANGED local
    \/ Like(p) /\ UNCHANGED local
    \/ Share(p) /\ UNCHANGED local
    \/ AvgReadTime(p) /\ UNCHANGED local
    \/ LastViewed(p) /\ UNCHANGED local

\* The call p made last on its instance stays on record with p.
Called(p) ==
    local' = [local EXCEPT ![p] = [op |-> ret'.op, n |-> 0, k |-> 0, ok |-> ret'.ok]]

\* The same calls, each caller's last call on record: a load of the row,
\* or one of the methods and how it ended.
CountersOnRecord(p) ==
    \/ /\ \E s \in db.statistics : LoadStatistics(p, s)
       /\ local' = [local EXCEPT ![p] = [op |-> "load", n |-> 0, k |-> 0, ok |-> TRUE]]
    \/ View(p) /\ Called(p)
    \/ Like(p) /\ Called(p)
    \/ Share(p) /\ Called(p)
    \/ AvgReadTime(p) /\ Called(p)
    \/ LastViewed(p) /\ Called(p)

\* Sequential execution: every call runs to its return before the next starts.
Next ==
    \/ \E t \in UserTitles, c \in UserContents, a \in Authors : Create(t, c, a)
    \/ \E id \in 1..MaxPosts : Update(id)
    \/ Deletions

Spec == Init /\ [][Next]_vars

\* Sequential execution with the statistics calls and the clock.
NextStats ==
    \/ \E t \in UserTitles, c \in UserContents, a \in Authors :
          db.nextPost <= MaxStatsPosts /\ Create(t, c, a)
    \/ \E id \in 1..MaxPosts : Update(id)
    \/ \E id \in 1..MaxPosts : DeletePost(id)
    \/ \E p \in Procs : Counters(p)
    \/ Tick

SpecStats == Init /\ [][NextStats]_vars

\* The statistics calls of the callers on the rows of stored posts, in any
\* order: a caller's load and its later calls may have other callers'
\* calls between them.
NextCounters ==
    \/ \E t \in UserTitles, c \in UserContents, a \in Authors :
          db.nextPost <= MaxStatsPosts /\ Create(t, c, a)
    \/ \E p \in Procs : CountersOnRecord(p)
    \/ Tick

SpecCounters == Init /\ [][NextCounters]_vars

(* ------------------- Post.save, statement by statement ---------------- *)

\* Saves that have begun and not returned.
InFlight == { p \in Procs : pc[p] # "idle" }

\* p's call returns (ok) or raises (~ok); the instance stays in p's memory.
Return(p, ok) ==
    /\ pc' = [pc EXCEPT ![p] = "idle"]
    /\ local' = [local EXCEPT ![p] = [op |-> @.op, n |-> 0, k |-> 0, ok |-> ok]]

\* p calls Post.objects.create(title=t, content=c, author=a): the instance
\* has no pk, so Post.save goes straight to Model.save.
BeginCreate(p, t, c, a) ==
    /\ pc[p] = "idle"
    /\ db.nextPost + Cardinality({q \in InFlight : inst[q].pk = None}) <= MaxConcPosts
    /\ db.nextVersion + Cardinality(InFlight) <= MaxVersionRows
    /\ inst' = [inst EXCEPT ![p] = [pk |-> None, title |-> t, content |-> c, author |-> a]]
    /\ local' = [local EXCEPT ![p] = [op |-> "create", n |-> 0, k |-> 0, ok |-> TRUE]]
    /\ pc' = [pc EXCEPT ![p] = "save"]
    /\ UNCHANGED <<cache, http, db, clock, handle, ret>>

\* p calls save() on an instance of the stored post id.
BeginUpdate(p, id) ==
    /\ pc[p] = "idle"
    /\ PostExists(db, id)
    /\ db.nextVersion + Cardinality(InFlight) <= MaxVersionRows
    /\ \E i \in Instances(id) : inst' = [inst EXCEPT ![p] = i]
    /\ local' = [local EXCEPT ![p] = [op |-> "update", n |-> 0, k |-> 0, ok |-> TRUE]]
    /\ pc' = [pc EXCEPT ![p] = "count"]
    /\ UNCHANGED <<cache, http, db, clock, handle, ret>>

\* self.versions.count()
StepCount(p) ==
    /\ pc[p] = "count"
    /\ local' = [local EXCEPT ![p].n = VersionCount(db, Val(inst[p].pk))]
    /\ pc' = [pc EXCEPT ![p] = "lookup"]
    /\ UNCHANGED <<cache, http, db, clock, handle, inst, ret>>

\* update_or_create's SELECT ... FOR UPDATE: a matched row is locked and
\* written in the same transaction; when nothing matched nothing is locked,
\* and the INSERT is a later statement.
StepLookup(p) ==
    /\ pc[p] = "lookup"
    /\ IF UocMatches(db, inst[p], local[p].n) = {}
       THEN /\ pc' = [pc EXCEPT ![p] = "insert"]
            /\ UNCHANGED <<cache, http, db, local>>
       ELSE LET r == UocUpdate(db, inst[p], local[p].n)
            IN  /\ db' = r.db
                /\ IF r.ok
                   THEN /\ pc' = [pc EXCEPT ![p] = "save"]
                        /\ UNCHANGED local
                   ELSE Return(p, FALSE)
    /\ UNCHANGED <<cache, http, clock, handle, inst, ret>>

\* update_or_create's INSERT of the version row.
StepInsert(p) ==
    /\ pc[p] = "insert"
    /\ LET r == UocCreate(db, inst[p], local[p].n)
       IN  /\ db' = r.db
           /\ IF r.ok
              THEN /\ pc' = [pc EXCEPT ![p] = "save"]
                   /\ UNCHANGED local
              ELSE Return(p, FALSE)
    /\ UNCHANGED <<cache, http, clock, handle, inst, ret>>

\* super().save(): the row is written and committed, then post_save is sent.
StepSave(p) ==
    /\ pc[p] = "save"
    /\ LET r == SuperSave(db, inst[p], clock)
       IN  /\ db' = r.db
           /\ inst' = [inst EXCEPT ![p].pk = Some(r.pk)]
           /\ IF r.created
              THEN /\ pc' = [pc EXCEPT ![p] = "receiver"]
                   /\ local' = [local EXCEPT ![p].k = 1]
              ELSE Return(p, TRUE)
    /\ UNCHANGED <<cache, http, clock, handle, ret>>

\* The next statement of create_post_related_objects, each its own commit.
StepReceiver(p) ==
    /\ pc[p] = "receiver"
    /\ \E ch \in Choices :
         LET r == HandlerStep(local[p].k, db, inst[p], clock, ch)
         IN  /\ db' = r.db
             /\ IF ~r.ok
                THEN Return(p, FALSE)
                ELSE IF local[p].k = HandlerSteps
                THEN Return(p, TRUE)
                ELSE /\ local' = [local EXCEPT ![p].k = @ + 1]
                     /\ UNCHANGED pc
    /\ UNCHANGED <<cache, http, clock, handle, inst, ret>>

\* Bookmark.objects.create(user=a, post=id) by some other request.
BookmarkCreate(a, id) ==
    /\ PostExists(db, id)
    /\ LET r == HandlerBookmark(db, [NoInstance EXCEPT !.pk = Some(id), !.author = a],
                                [note |-> ""])
       IN  /\ db' = r.db
           /\ ret' = Returned("bookmark", r.ok, Some(id))
    /\ UNCHANGED <<cache, http, clock, handle, pc, inst, local>>

\* Concurrent execution: the statements of the callers' saves interleave.
NextConc ==
    \/ \E p \in Procs, t \in UserTitles, c \in UserContents, a \in Authors :
          BeginCreate(p, t, c, a)
    \/ \E p \in Procs, id \in 1..MaxPosts : BeginUpdate(p, id)
    \/ \E p \in Procs : StepCount(p)
    \/ \E p \in Procs : StepLookup(p)
    \/ \E p \in Procs : StepInsert(p)
    \/ \E p \in Procs : StepSave(p)
    \/ \E p \in Procs : StepReceiver(p)
    \/ \E a \in Authors, id \in 1..MaxPosts : BookmarkCreate(a, id)

SpecConc == Init /\ [][NextConc]_vars

\* Concurrent updates of stored posts: every create runs to its return
\* while no save is in flight; the statements of the updates interleave.
NextUpdates ==
    \/ \E t \in UserTitles, c \in UserContents, a \in Authors :
          InFlight = {} /\ db.nextPost <= MaxConcPosts /\ Create(t, c, a)
    \/ \E p \in Procs, id \in 1..MaxPosts : BeginUpdate(p, id)
    \/ \E p \in Procs : StepCount(p)
    \/ \E p \in Procs : StepLookup(p)
    \/ \E p \in Procs : StepInsert(p)
    \/ \E p \in Procs : StepSave(p)

SpecUpdates == Init /\ [][NextUpdates]_vars

(* ------------------- creation inputs, engagement rows ----------------- *)

\* What a caller may pass to Post.objects.create: a title or content that
\* may be the empty string, an author that may be absent.
AnyTitles == {"Test Post", ""}

AnyContents == {"This is test content", ""}

AnyAuthors == {None} \cup { Some(a) : a \in Authors }

\* Post.objects.create(title=t, content=c, author=ao): Post.save, which
\* runs no validator (Model.save does not call full_clean); the INSERT of a
\* row without author is refused by NOT NULL on posts.author_id.
Post_objects_create(d, t, c, ao, now, ch) ==
    IF ao = None
    THEN [ok |-> FALSE, db |-> d, pk |-> None]
    ELSE Post_save(d, [pk |-> None, title |-> t, content |-> c, author |-> Val(ao)],
                   now, ch)

\* Comment.objects.create(post=post, author=a, parent=parent, content=...):
\* the foreign keys must point at stored rows; nothing relates the post of
\* the parent to the post of the comment.
CommentInsert(d, post, a, parent) ==
    IF \/ ~PostExists(d, post)
       \/ parent # None /\ ~\E c \in d.comments : c.id = Val(parent)
    THEN Raise(d)
    ELSE Ok([d EXCEPT !.comments = @ \cup
                 { [ id |-> d.nextComment, post |-> post, author |-> Some(a),
                     parent |-> parent, content |-> "Great post!",
                     rating |-> None, is_approved |-> FALSE ] },
               !.nextComment = @ + 1])

\* Post.objects.create with any input, run to its return.
CreateAny(t, c, ao) ==
    /\ db.nextPost <= MaxPosts
    /\ db.nextVersion <= MaxVersionRows
    /\ \E ch \in Choices :
         LET r == Post_objects_create(db, t, c, ao, clock, ch)
         IN  /\ db' = r.db
             /\ ret' = Returned("create", r.ok, r.pk)
    /\ UNCHANGED <<cache, http, clock, handle, pc, inst, local>>

\* Comment.objects.create(post=id, author=a, parent=parent) by a reader.
CommentCreate(id, a, parent) ==
    /\ PostExists(db, id)
    /\ db.nextComment <= MaxCommentRows
    /\ LET r == CommentInsert(db, id, a, parent)
       IN  /\ db' = r.db
           /\ ret' = Returned("comment", r.ok, Some(id))
    /\ UNCHANGED <<cache, http, clock, handle, pc, inst, local>>

\* Sequential execution of creates with any input and of the readers'
\* comments and bookmarks.
NextEngage ==
    \/ \E t \in AnyTitles, c \in AnyContents, ao \in AnyAuthors : CreateAny(t, c, ao)
    \/ \E id \in 1..MaxPosts, a \in Authors : CommentCreate(id, a, None)
    \/ \E a \in Authors, id \in 1..MaxPosts : BookmarkCreate(a, id)

SpecEngage == Init /\ [][NextEngage]_vars

(* --------------------------- comment threads -------------------------- *)

\* comment.delete(): the collector removes the comment and, through
\* Comment.parent's on_delete=CASCADE, every reply below it.
Comment_delete(d, cid) ==
    LET gone == CommentClosure(d, { c \in d.comments : c.id = cid })
    IN  [ok |-> TRUE, db |-> [d EXCEPT !.comments = @ \ gone],
         deleted |-> Cardinality(gone)]

\* comment.parent = parent; comment.save() (the admin's change form, whose
\* parent is a raw id field): the foreign key must point at a stored
\* comment, which may be the comment itself, a reply below it or a comment
\* of another post.
Comment_save(d, cid, parent) ==
    IF parent # None /\ ~\E c \in d.comments : c.id = Val(parent)
    THEN Raise(d)
    ELSE Ok([d EXCEPT !.comments =
                 { IF c.id = cid THEN [c EXCEPT !.parent = parent] ELSE c : c \in @ }])

\* The parents a caller may name: none, or a stored comment.
Parents == {None} \cup { Some(c.id) : c \in db.comments }

CommentDelete(cid) ==
    /\ \E c \in db.comments : c.id = cid
    /\ LET r == Comment_delete(db, cid)
       IN  /\ db' = r.db
           /\ ret' = [Returned("commentDelete", r.ok, Some(cid)) EXCEPT !.deleted = r.deleted]
    /\ UNCHANGED <<cache, http, clock, handle, pc, inst, local>>

CommentReparent(cid, parent) ==
    /\ \E c \in db.comments : c.id = cid
    /\ LET r == Comment_save(db, cid, parent)
       IN  /\ db' = r.db
           /\ ret' = Returned("commentSave", r.ok, Some(cid))
    /\ UNCHANGED <<cache, http, clock, handle, pc, inst, local>>

\* The author whose comments the readers' requests create.
Reader == "author2"

\* Sequential execution of creates and of the calls on comments: posts are
\* created with the test's title and content, comments by one reader.
NextComments ==
    \/ \E a \in Authors : Create("Test Post", "This is test content", a)
    \/ \E id \in 1..MaxPosts, parent \in Parents : CommentCreate(id, Reader, parent)
    \/ \E cid \in 1..MaxCommentRows, parent \in Parents : CommentReparent(cid, parent)
    \/ \E cid \in 1..MaxCommentRows : CommentDelete(cid)

SpecComments == Init /\ [][NextComments]_vars

(* ------------------------------- drafts ------------------------------- *)

\* timedelta(days=7); the clock counts days.
SevenDays == 7

\* Draft.STATUS_CHOICES values and contents a caller assigns.
DraftStatuses == {"active", "archived"}

DraftContents == {"Content", "Edited content"}

\* scheduled_publish_at as a caller passes it: absent, or an explicit date
\* (the test's custom date is three days after the clock's origin).
DraftSchedules == {None, Some(3)}

DraftExists(d, id) == \E r \in d.drafts : r.id = id

DraftRow(d, id) == CHOOSE r \in d.drafts : r.id = id

\* A bug Draft_save could have: the default assigned whatever the caller
\* passed.
Draft_save_always_default(d, i, now) ==
    LET j == [i EXCEPT !.scheduled_publish_at = Some(now + SevenDays)]
        id == IF i.pk = None THEN d.nextDraft ELSE Val(i.pk)
        row == [ id |-> id, author |-> j.author, content |-> j.content,
                 status |-> j.status,
                 scheduled_publish_at |-> j.scheduled_publish_at,
                 created_at |-> IF i.pk = None THEN now ELSE DraftRow(d, id).created_at ]
    IN  [ ok |-> TRUE, pk |-> id,
          db |-> [d EXCEPT !.drafts = { r \in @ : r.id # id } \cup {row},
                           !.nextDraft = IF i.pk = None THEN @ + 1 ELSE @] ]

\* Draft.save: "if not self.scheduled_publish_at" holds for None only (a
\* datetime is never falsy), and then the attribute becomes now + 7 days;
\* super().save() inserts the row (created_at = now, auto_now_add) when the
\* instance has no pk and rewrites the row of its pk otherwise. The reads
\* of the clock within one call are one reading.
Draft_save(d, i, now) ==
    LET j == IF i.scheduled_publish_at = None
             THEN [i EXCEPT !.scheduled_publish_at = Some(now + SevenDays)]
             ELSE i
        id == IF i.pk = None THEN d.nextDraft ELSE Val(i.pk)
        row == [ id |-> id, author |-> j.author, content |-> j.content,
                 status |-> j.status,
                 scheduled_publish_at |-> j.scheduled_publish_at,
                 created_at |-> IF i.pk = None THEN now ELSE DraftRow(d, id).created_at ]
    IN  [ ok |-> TRUE, pk |-> id,
          db |-> [d EXCEPT !.drafts = { r \in @ : r.id # id } \cup {row},
                           !.nextDraft = IF i.pk = None THEN @ + 1 ELSE @] ]

\* Draft.objects.create(title=..., content=..., author=a) with or without
\* scheduled_publish_at (so), run to its return.
DraftCreate(a, so) ==
    /\ db.nextDraft <= MaxDrafts
    /\ LET i == [ pk |-> None, author |-> a, content |-> "Content",
                  status |-> "active", scheduled_publish_at |-> so ]
           r == Draft_save(db, i, clock)
       IN  /\ db' = r.db
           /\ ret' = Returned("draftCreate", r.ok, Some(r.pk))
    /\ UNCHANGED <<cache, http, clock, handle, pc, inst, local>>

\* A later save of the stored draft id: the instance is loaded from the
\* row, the caller assigns status st and content c, leaves
\* scheduled_publish_at as loaded or assigns so (None clears it), and
\* calls save().
DraftUpdate(id, st, c, so) ==
    /\ DraftExists(db, id)
    /\ so \in DraftSchedules \cup {DraftRow(db, id).scheduled_publish_at}
    /\ LET row == DraftRow(db, id)
           i == [ pk |-> Some(id), author |-> row.author, content |-> c,
                  status |-> st, scheduled_publish_at |-> so ]
           r == Draft_save(db, i, clock)
       IN  /\ db' = r.db
           /\ ret' = Returned("draftUpdate", r.ok, Some(r.pk))
    /\ UNCHANGED <<cache, http, clock, handle, pc, inst, local>>

\* The values scheduled_publish_at can hold in a save's instance.
ScheduleValues == DraftSchedules \cup { Some(t + SevenDays) : t \in 0..MaxTime }

NextDrafts ==
    \/ \E a \in Authors, so \in DraftSchedules : DraftCreate(a, so)
    \/ \E id \in 1..MaxDrafts, st \in DraftStatuses, c \in DraftContents,
          so \in ScheduleValues : DraftUpdate(id, st, c, so)
    \/ Tick

SpecDrafts == Init /\ [][NextDrafts]_vars

(* --------------------------- users, authors --------------------------- *)

\* The email the list views filter by, and one other address.
Emails == {"john.doe@gmail.com", "john@example.com"}

Plaintexts == {"securepass123", "password"}

\* A password value: the text a caller supplied and the number of times
\* make_password has been applied to it (0: the plaintext itself).
Plain(s) == [layers |-> 0, text |-> s]

\* django.contrib.auth.hashers.make_password: hashes whatever it is given.
make_password(p) == [p EXCEPT !.layers = @ + 1]

\* The primary keys of the authors table, in order of insertion.
AuthorIds == <<"author1", "author2", "author3">>

UserExists(d, uid) == \E u \in d.users : u.id = uid

UserRow(d, uid) == CHOOSE u \in d.users : u.id = uid

\* The rows behind user.authors, the reverse side of Author.user.
AuthorsOfUser(d, uid) == { a \in d.authors : a.user = uid }

StoredAuthors(d) == { a.id : a \in d.authors }

\* A bug AuthorInsert could have: Author.user declared as a plain foreign
\* key, so a user may have several authors.
AuthorInsertNotUnique(d, uid) ==
    IF ~UserExists(d, uid)
    THEN Raise(d)
    ELSE Ok([d EXCEPT !.authors = @ \cup
                 { [ id |-> AuthorIds[d.nextAuthor], user |-> uid,
                     website |-> "", social_links |-> << >> ] },
               !.nextAuthor = @ + 1])

\* Author.objects.create(user=user): the one-to-one field is a foreign key
\* with a unique index, so a second author of the user is an IntegrityError.
AuthorInsert(d, uid) ==
    IF \/ ~UserExists(d, uid)
       \/ AuthorsOfUser(d, uid) # {}
    THEN Raise(d)
    ELSE Ok([d EXCEPT !.authors = @ \cup
                 { [ id |-> AuthorIds[d.nextAuthor], user |-> uid,
                     website |-> "", social_links |-> << >> ] },
               !.nextAuthor = @ + 1])

\* A bug create_author_profile could have: no test of created.
create_author_profile_always(d, uid, created) == AuthorInsert(d, uid)

\* The post_save receiver of User.
create_author_profile(d, uid, created) ==
    IF created THEN AuthorInsert(d, uid) ELSE Ok(d)

\* A bug UserWrite could have: email declared without unique=True.
UserWriteNotUnique(d, i) ==
    LET id == IF i.pk = None THEN d.nextUser ELSE Val(i.pk)
        row == [id |-> id, name |-> i.name, email |-> i.email,
                password |-> i.password]
        created == i.pk = None \/ ~UserExists(d, id)
    IN  [ ok |-> TRUE, created |-> created, pk |-> Some(id),
          db |-> [d EXCEPT !.users = { u \in @ : u.id # id } \cup {row},
                           !.nextUser = IF i.pk = None THEN @ + 1 ELSE @] ]

\* Model.save of a User: UPDATE by primary key when the instance has one
\* and its row is stored, else INSERT; all fields are written. The unique
\* index on email refuses the statement, and then no post_save is sent.
UserWrite(d, i) ==
    LET id == IF i.pk = None THEN d.nextUser ELSE Val(i.pk)
        row == [id |-> id, name |-> i.name, email |-> i.email,
                password |-> i.password]
        created == i.pk = None \/ ~UserExists(d, id)
    IN  IF \E u \in d.users : u.id # id /\ u.email = i.email
        THEN [ok |-> FALSE, created |-> FALSE, pk |-> i.pk, db |-> d]
        ELSE [ ok |-> TRUE, created |-> created, pk |-> Some(id),
               db |-> [d EXCEPT !.users = { u \in @ : u.id # id } \cup {row},
                                !.nextUser = IF i.pk = None THEN @ + 1 ELSE @] ]

\* User.save: the password is hashed when the instance has no primary key;
\* then the row is written and, in autocommit, the receiver runs.
User_save(d, i) ==
    LET is_new == i.pk = None
        j == IF is_new THEN [i EXCEPT !.password = make_password(@)] ELSE i
        w == UserWrite(d, j)
    IN  IF ~w.ok
        THEN [ok |-> FALSE, db |-> w.db, pk |-> w.pk]
        ELSE LET r == create_author_profile(w.db, Val(w.pk), w.created)
             IN  [ok |-> r.ok, db |-> r.db, pk |-> w.pk]

\* author.delete() as the collector runs it, for a set of author ids: the
\* rows whose foreign key to the author is CASCADE go, each post with what
\* cascades from it; Comment.author and PostVersion.created_by are SET_NULL.
AuthorsDelete(d, as) ==
    LET posts == { r \in d.posts : r.author \in as }
        pids == { r.id : r \in posts }
        gone == CommentClosure(d, { c \in d.comments : c.post \in pids })
    IN  [d EXCEPT
          !.authors = { a \in @ : a.id \notin as },
          !.posts = @ \ posts,
          !.versions = { IF v.created_by # None /\ Val(v.created_by) \in as
                         THEN [v EXCEPT !.created_by = None] ELSE v :
                         v \in { w \in @ : w.post \notin pids } },
          !.statistics = { s \in @ : s.post \notin pids },
          !.schedules = { s \in @ : s.post \notin pids },
          !.comments = { IF c.author # None /\ Val(c.author) \in as
                         THEN [c EXCEPT !.author = None] ELSE c :
                         c \in @ \ gone },
          !.bookmarks = { b \in @ : b.post \notin pids /\ b.user \notin as },
          !.notifications = { n \in @ : n.recipient \notin as },
          !.drafts = { r \in @ : r.author \notin as } ]

\* user.delete(): Author.user is CASCADE.
User_delete(d, uid) ==
    IF ~UserExists(d, uid)
    THEN Raise(d)
    ELSE Ok([AuthorsDelete(d, { a.id : a \in AuthorsOfUser(d, uid) })
               EXCEPT !.users = { u \in @ : u.id # uid }])

\* User.objects.create(name=..., email=e, password=pw), run to its return.
UserCreate(e, pw) ==
    /\ db.nextUser <= MaxUsers
    /\ db.nextAuthor <= Len(AuthorIds)
    /\ LET i == [pk |-> None, name |-> "John Doe", email |-> e,
                 password |-> Plain(pw)]
           r == User_save(db, i)
       IN  /\ db' = r.db
           /\ ret' = Returned("userCreate", r.ok, r.pk)
    /\ UNCHANGED <<cache, http, clock, handle, pc, inst, local>>

\* The instances of user uid a caller may save: loaded from the stored row,
\* the email and the password each left as loaded or assigned by the caller.
UserInstances(uid) ==
    { [pk |-> Some(uid), name |-> UserRow(db, uid).name, email |-> e,
       password |-> pw] :
        e \in Emails \cup {UserRow(db, uid).email},
        pw \in {Plain(s) : s \in Plaintexts} \cup {UserRow(db, uid).password} }

\* user = User.objects.get(pk=uid); user.email = ...; user.password = ...;
\* user.save(), run to its return.
UserSave(uid) ==
    /\ UserExists(db, uid)
    /\ \E i \in UserInstances(uid) :
         LET r == User_save(db, i)
         IN  /\ db' = r.db
             /\ ret' = Returned("userSave", r.ok, r.pk)
    /\ UNCHANGED <<cache, http, clock, handle, pc, inst, local>>

\* Author.objects.create(user=uid), run to its return.
AuthorCreate(uid) ==
    /\ UserExists(db, uid)
    /\ db.nextAuthor <= Len(AuthorIds)
    /\ LET r == AuthorInsert(db, uid)
       IN  /\ db' = r.db
           /\ ret' = Returned("authorCreate", r.ok, Some(uid))
    /\ UNCHANGED <<cache, http, clock, handle, pc, inst, local>>

\* The admin's delete of an author.
AuthorDelete(a) ==
    /\ a \in StoredAuthors(db)
    /\ db' = AuthorsDelete(db, {a})
    /\ ret' = Returned("authorDelete", TRUE, None)
    /\ UNCHANGED <<cache, http, clock, handle, pc, inst, local>>

\* user.delete(), run to its return.
UserDelete(uid) ==
    /\ UserExists(db, uid)
    /\ LET r == User_delete(db, uid)
       IN  /\ db' = r.db
           /\ ret' = Returned("userDelete", r.ok, Some(uid))
    /\ UNCHANGED <<cache, http, clock, handle, pc, inst, local>>

\* Sequential execution of the operations on users and authors.
NextUsers ==
    \/ \E e \in Emails, pw \in Plaintexts : UserCreate(e, pw)
    \/ \E uid \in 1..MaxUsers : UserSave(uid)
    \/ \E uid \in 1..MaxUsers : AuthorCreate(uid)
    \/ \E a \in StoredAuthors(db) : AuthorDelete(a)
    \/ \E uid \in 1..MaxUsers : UserDelete(uid)

SpecUsers == Init /\ [][NextUsers]_vars

(* ------------------------ ownership, listings ------------------------- *)

\* The email blog_list_raw and blog_list_orm filter by.
FilterEmail == "john.doe@gmail.com"

\* The posts both listings select: INNER JOIN authors, INNER JOIN users,
\* WHERE users.email = FilterEmail.
Selected(d) ==
    { p \in d.posts : \E a \in d.authors : \E u \in d.users :
          a.id = p.author /\ u.id = a.user /\ u.email = FilterEmail }

AuthorOf(d, p) == CHOOSE a \in d.authors : a.id = p.author

UserOf(d, p) == CHOOSE u \in d.users : u.id = AuthorOf(d, p).user

\* A row of blog_list_raw as PostRawSerializer renders it:
\* LEFT JOIN post_versions AS pv ON p.id = pv.id.
RawRow(d, p) ==
    [ id |-> p.id, title |-> p.title,
      version_title |-> IF \E v \in d.versions : v.id = p.id
                        THEN Some((CHOOSE v \in d.versions : v.id = p.id).title)
                        ELSE None,
      email |-> UserOf(d, p).email, name |-> UserOf(d, p).name,
      website |-> AuthorOf(d, p).website,
      social_links |-> AuthorOf(d, p).social_links ]

\* A row of blog_list_orm as PostORMSerializer renders it: version_title
\* has no source, a Post has no attribute of that name, and a field with
\* allow_null=True renders a missing attribute as null.
OrmRow(d, p) ==
    [ id |-> p.id, title |-> p.title, version_title |-> None,
      email |-> UserOf(d, p).email, name |-> UserOf(d, p).name,
      website |-> AuthorOf(d, p).website,
      social_links |-> AuthorOf(d, p).social_links ]

\* ORDER BY created_at DESC: the orders the store may return the posts in.
Orderings(ps) ==
    { s \in [1..Cardinality(ps) -> ps] :
        /\ \A j, k \in DOMAIN s : j # k => s[j] # s[k]
        /\ \A j, k \in DOMAIN s : j < k => s[j].created_at >= s[k].created_at }

\* The responses blog_list_raw may give in store d.
blog_list_raw(d) ==
    { [k \in DOMAIN s |-> RawRow(d, s[k])] : s \in Orderings(Selected(d)) }

\* The responses blog_list_orm may give in store d.
blog_list_orm(d) ==
    { [k \in DOMAIN s |-> OrmRow(d, s[k])] : s \in Orderings(Selected(d)) }

\* Sequential execution of users' creation and deletion with the rows
\* their authors own: posts, comments on any post, drafts.
NextOwned ==
    \/ \E e \in Emails : UserCreate(e, "securepass123")
    \/ \E a \in StoredAuthors(db) :
         Create("Test Post", "This is test content", a)
    \/ \E id \in 1..MaxPosts, a \in StoredAuthors(db) : CommentCreate(id, a, None)
    \/ \E a \in StoredAuthors(db) : DraftCreate(a, None)
    \/ \E uid \in 1..MaxUsers : UserDelete(uid)
    \/ Tick

SpecOwned == Init /\ [][NextOwned]_vars

(* ----------------------------- schedules ------------------------------ *)

\* The change list of PostScheduleAdmin: is_published is the one editable
\* column. Saving the list writes the row with the flag posted; PostSchedule
\* has no save override and no receiver, so no other column changes.
ScheduleSetPublished(d, sid, flag) ==
    [d EXCEPT !.schedules =
        { IF s.id = sid THEN [s EXCEPT !.is_published = flag] ELSE s :
          s \in @ }]

\* The admin ticks or clears is_published of schedule sid and saves.
SchedulePublish(sid, flag) ==
    /\ \E s \in db.schedules : s.id = sid
    /\ db' = ScheduleSetPublished(db, sid, flag)
    /\ ret' = Returned("schedulePublish", TRUE, Some(sid))
    /\ UNCHANGED <<cache, http, clock, handle, pc, inst, local>>

\* Sequential execution of post creation and of the admin's edits of the
\* schedules' flag.
NextSchedules ==
    \/ \E t \in UserTitles, c \in UserContents, a \in Authors : Create(t, c, a)
    \/ \E sid \in 1..MaxPosts, flag \in BOOLEAN : SchedulePublish(sid, flag)
    \/ Tick

SpecSchedules == Init /\ [][NextSchedules]_vars

(* --------------------------- rate limiting ---------------------------- *)

\* RateLimitMiddleware.__init__
rate_limit == 100

\* The requests each worker receives: p1 straight from a client, p2 through
\* a proxy that lists the client first in X-Forwarded-For, or straight from
\* another client. xff holds the entries of the header split at ','.
Requests(p) ==
    IF p = "p1"
    THEN { [xff |-> None, remote |-> "203.0.113.7"] }
    ELSE { [xff |-> Some(<<"203.0.113.7", "10.0.0.1">>), remote |-> "10.0.0.1"],
           [xff |-> None, remote |-> "198.51.100.9"] }

\* The requests a worker handles in all.
Budget(p) == IF p = "p1" THEN MaxRequests ELSE MaxOverlapping

\* RateLimitMiddleware.get_client_ip
get_client_ip(request) ==
    IF request.xff # None /\ Val(request.xff) # << >>
    THEN Head(Val(request.xff))
    ELSE request.remote

\* cache.get(cache_key, 0)
CacheGet(c, ip) == IF c[ip] = None THEN 0 ELSE Val(c[ip])

\* is_rate_limited up to its read: the client's address is taken from the
\* request and request_count is read from the cache.
Get(p, request) ==
    /\ http.request[p] = None
    /\ http.begun[p] < Budget(p)
    /\ http' = [http EXCEPT !.request[p] = Some(request),
                            !.count[p] = CacheGet(cache, get_client_ip(request)),
                            !.begun[p] = @ + 1]
    /\ UNCHANGED <<cache, db, clock, handle, pc, inst, local, ret>>

\* request_count >= rate_limit: is_rate_limited returns True and __call__
\* answers 429 without calling get_response.
Limited(p) ==
    /\ http.request[p] # None
    /\ http.count[p] >= rate_limit
    /\ http' = [http EXCEPT !.request[p] = None,
                            !.status[p] = 429]
    /\ UNCHANGED <<cache, db, clock, handle, pc, inst, local, ret>>

\* Otherwise cache.set(cache_key, request_count + 1, time_window) writes
\* the count read plus one, which starts the entry's hour anew, and
\* __call__ forwards the request to get_response.
Forward(p) ==
    /\ http.request[p] # None
    /\ http.count[p] < rate_limit
    /\ LET ip == get_client_ip(Val(http.request[p]))
       IN  /\ cache' = [cache EXCEPT ![ip] = Some(http.count[p] + 1)]
           /\ http' = [http EXCEPT !.request[p] = None,
                                   !.status[p] = 200,
                                   !.forwarded[ip] = @ + 1]
    /\ UNCHANGED <<db, clock, handle, pc, inst, local, ret>>

\* time_window seconds have passed since the last cache.set of the key:
\* the entry is gone, and the count of requests forwarded during its life
\* starts again.
Expire(ip) ==
    /\ cache[ip] # None
    /\ http.expired < MaxExpiries
    /\ cache' = [cache EXCEPT ![ip] = None]
    /\ http' = [http EXCEPT !.forwarded[ip] = 0, !.expired = @ + 1]
    /\ UNCHANGED <<db, clock, handle, pc, inst, local, ret>>

\* Two workers of the server run the middleware on their requests, their
\* cache reads and writes interleaved; a client that has been limited lets
\* its entry run out.
NextRate ==
    \/ \E p \in Procs : \E request \in Requests(p) : Get(p, request)
    \/ \E p \in Procs : Limited(p)
    \/ \E p \in Procs : Forward(p)
    \/ \E ip \in ClientIps : cache[ip] = Some(rate_limit) /\ Expire(ip)

SpecRate == Init /\ [][NextRate]_vars

(* ------------------------------ claims -------------------------------- *)

\* The versions of post id carry the numbers 1, 2, ... in the order of
\* their creation (the order of their row ids), without gap or duplicate.
Contiguous(d, id) ==
    \A v \in VersionsOf(d, id) :
        v.version_number = Cardinality({ w \in VersionsOf(d, id) : w.id <= v.id })

\* The version of post id with the highest number.
NewestVersions(d, id) ==
    { v \in VersionsOf(d, id) :
        \A w \in VersionsOf(d, id) : w.version_number <= v.version_number }

C2_NoDuplicateNoLostSnapshot ==
    /\ \A v, w \in db.versions :
          (v.post = w.post /\ v.version_number = w.version_number) => v = w
    /\ \A p \in Procs :
          (pc[p] = "idle" /\ local[p].op = "update" /\ local[p].ok) =>
              \E v \in VersionsOf(db, Val(inst[p].pk)) :
                  v.title = inst[p].title /\ v.content = inst[p].content

C4_StatisticsInitialization ==
    (ret.op = "create" /\ ret.ok) =>
        /\ StatisticsOf(db, Val(ret.pk)) # {}
        /\ \A s \in StatisticsOf(db, Val(ret.pk)) :
              /\ s.view_count = 0
              /\ s.like_count = 0
              /\ s.share_count = 0
              /\ s.last_viewed_at = None

\* C5: a create(title=t, content=c, author=a) that returns leaves its post
\* with exactly one version: number 1, title t, content c, created_by a.
C5_VersionContentFidelity ==
    [][ \A t \in UserTitles, c \in UserContents, a \in Authors :
          Create(t, c, a) =>
              /\ ret'.ok
              /\ \E v \in db'.versions :
                    /\ VersionsOf(db', Val(ret'.pk)) = {v}
                    /\ v.version_number = 1
                    /\ v.title = t
                    /\ v.content = c
                    /\ v.created_by = Some(a)
      ]_vars

\* A create has returned and its post has a version.
C5_Witness ==
    /\ ret.op = "create"
    /\ ret.ok
    /\ VersionCount(db, Val(ret.pk)) = 1

\* C6: after a create or an update returns, the stored Post's title and
\* content are those of its highest-numbered version.
C6_PostMatchesNewestVersion ==
    (ret.op \in {"create", "update"} /\ ret.ok) =>
        /\ NewestVersions(db, Val(ret.pk)) # {}
        /\ \A v \in NewestVersions(db, Val(ret.pk)) :
              /\ v.title = PostRow(db, Val(ret.pk)).title
              /\ v.content = PostRow(db, Val(ret.pk)).content

\* C7: every update of a stored Post appends exactly one version, numbered
\* the count of the post's versions before the call plus one, with the
\* post's new title and content and the post's stored author.
C7_UpdateAppendsVersion ==
    [][ ret'.op = "update" =>
          /\ ret'.ok
          /\ \E v \in db'.versions \ db.versions :
                /\ db'.versions = db.versions \cup {v}
                /\ v.post = Val(ret'.pk)
                /\ v.version_number = VersionCount(db, Val(ret'.pk)) + 1
                /\ v.title = PostRow(db', Val(ret'.pk)).title
                /\ v.content = PostRow(db', Val(ret'.pk)).content
                /\ v.created_by = Some(PostRow(db', Val(ret'.pk)).author)
      ]_vars

\* C8: a Post created and then saved once with a changed title has exactly
\* one version, and that version's title is the updated title.
C8_OneVersionAfterFirstSave ==
    [][ ( /\ ret.op = "create" /\ ret.ok
          /\ ret'.op = "update" /\ ret'.ok /\ ret'.pk = ret.pk
          /\ \A v \in VersionsOf(db, Val(ret.pk)) :
                v.title # PostRow(db', Val(ret.pk)).title ) =>
          /\ VersionCount(db', Val(ret.pk)) = 1
          /\ \A v \in VersionsOf(db', Val(ret.pk)) :
                v.title = PostRow(db', Val(ret.pk)).title
      ]_vars

\* C9: version.delete() on a stored version returns normally and removes
\* exactly that row; the post and every other version stay as they were.
C9_DeleteVersionRemovesIt ==
    [][ ret'.op = "deleteVersion" =>
          /\ ret'.ok
          /\ db'.versions = { v \in db.versions : v.id # Val(ret'.pk) }
          /\ db'.versions # db.versions
          /\ db'.posts = db.posts
      ]_vars

\* The rows a create call wrote for post id that are still stored.
RowsOfPost(d, id) ==
    { r \in d.posts : r.id = id } \cup VersionsOf(d, id) \cup StatisticsOf(d, id)
        \cup SchedulesOf(d, id) \cup CommentsOf(d, id)

\* C10: a create that raised has left no Post row and no dependent row; a
\* create that returned has left the Post with its statistics, version and
\* schedule rows.
C10_CreateIsAtomic ==
    \A p \in Procs :
        (pc[p] = "idle" /\ local[p].op = "create") =>
            IF local[p].ok
            THEN /\ PostExists(db, Val(inst[p].pk))
                 /\ StatisticsOf(db, Val(inst[p].pk)) # {}
                 /\ VersionsOf(db, Val(inst[p].pk)) # {}
                 /\ SchedulesOf(db, Val(inst[p].pk)) # {}
            ELSE inst[p].pk = None \/ RowsOfPost(db, Val(inst[p].pk)) = {}

\* C11: a create with an empty title, an empty content or an absent author
\* raises and stores no row: no Post, PostStatistics, PostVersion or
\* PostSchedule row is written by the failed call.
C11_InvalidCreateRejected ==
    [][ \A t \in AnyTitles, c \in AnyContents, ao \in AnyAuthors :
          (CreateAny(t, c, ao) /\ (t = "" \/ c = "" \/ ao = None)) =>
              /\ ~ret'.ok
              /\ db'.posts = db.posts
              /\ db'.statistics = db.statistics
              /\ db'.versions = db.versions
              /\ db'.schedules = db.schedules
      ]_vars

\* C16: a create that returns leaves its post without Comment and without
\* Bookmark; the first comment made on it afterwards is its only comment,
\* and the first bookmark of it by its own author succeeds and is that
\* author's only bookmark of it.
C16_CreateAddsNoEngagement ==
    [][ /\ (ret'.op = "create" /\ ret'.ok) =>
              /\ CommentsOf(db', Val(ret'.pk)) = {}
              /\ BookmarksOf(db', Val(ret'.pk)) = {}
        /\ \A id \in 1..MaxPosts, a \in Authors :
              ( /\ ret = Returned("create", TRUE, Some(id))
                /\ CommentCreate(id, a, None) ) =>
                  ret'.ok /\ Cardinality(CommentsOf(db', id)) = 1
        /\ \A id \in 1..MaxPosts :
              ( /\ ret = Returned("create", TRUE, Some(id))
                /\ BookmarkCreate(PostRow(db, id).author, id) ) =>
                  /\ ret'.ok
                  /\ Cardinality({ b \in BookmarksOf(db', id) :
                                     b.user = PostRow(db, id).author }) = 1
      ]_vars

\* The stored PostStatistics row with the id of instance h.
StoredStatistics(d, h) == { s \in d.statistics : s.id = h.id }

\* C12: under sequential execution (the instance is the stored row: nothing
\* was written to the row since it was loaded) update_view_count adds
\* exactly 1 to the stored view_count and changes no other field and no
\* other row; likewise update_like_count and update_share_count.
C12_CounterIncrement ==
    [][ \A p \in Procs :
          (handle[p] # None /\ Val(handle[p]) \in db.statistics) =>
              LET h == Val(handle[p])
                  Only(new) == /\ ret'.ok
                               /\ db'.statistics = (db.statistics \ {h}) \cup {new}
              IN  /\ View(p)  => Only([h EXCEPT !.view_count = @ + 1])
                  /\ Like(p)  => Only([h EXCEPT !.like_count = @ + 1])
                  /\ Share(p) => Only([h EXCEPT !.share_count = @ + 1])
      ]_vars

\* update_view_count has returned on a row whose like_count was not 0, and
\* only one caller ever held an instance of the row.
C12_Witness ==
    /\ ret.op = "view"
    /\ ret.ok
    /\ \E p \in Procs :
          /\ handle[p] # None
          /\ Val(handle[p]) \in db.statistics
          /\ Val(handle[p]).view_count = 1
          /\ Val(handle[p]).like_count = 1
          /\ \A q \in Procs \ {p} : handle[q] = None

\* C13: an increment made through an instance stores the instance's value
\* plus one, whatever the row holds by then, so two increments through two
\* separately loaded instances of a row can leave the counter grown by 1.
C13_IncrementStoresInstanceValue ==
    [][ \A p \in Procs :
          handle[p] # None =>
              LET h == Val(handle[p])
              IN  /\ (View(p) /\ ret'.ok) =>
                        \A s \in StoredStatistics(db', h) : s.view_count = h.view_count + 1
                  /\ (Like(p) /\ ret'.ok) =>
                        \A s \in StoredStatistics(db', h) : s.like_count = h.like_count + 1
                  /\ (Share(p) /\ ret'.ok) =>
                        \A s \in StoredStatistics(db', h) : s.share_count = h.share_count + 1
      ]_vars

\* Two callers each loaded the row with view_count 0 and each called
\* update_view_count once, both calls returned, and the row holds 1.
C13_Witness ==
    \E p, q \in Procs :
        /\ p # q
        /\ local[p].op = "view" /\ local[p].ok
        /\ local[q].op = "view" /\ local[q].ok
        /\ Val(handle[p]).id = Val(handle[q]).id
        /\ Val(handle[p]).view_count = 1
        /\ Val(handle[q]).view_count = 1
        /\ \E s \in StoredStatistics(db, Val(handle[p])) : s.view_count = 1

\* C14: from one state to the next, no stored row's view_count, like_count
\* or share_count decreases.
C14_CountersNeverDecrease ==
    [][ \A s \in db.statistics, s2 \in db'.statistics :
          s2.id = s.id =>
              /\ s2.view_count >= s.view_count
              /\ s2.like_count >= s.like_count
              /\ s2.share_count >= s.share_count
      ]_vars

\* C15: at most one Bookmark is stored per (user, post) pair, and
\* Bookmark.objects.create for a pair that has one raises and leaves the
\* stored bookmarks as they were.
C15_BookmarkUniqueness ==
    [][ /\ \A b1, b2 \in db'.bookmarks :
              (b1.user = b2.user /\ b1.post = b2.post) => b1 = b2
        /\ \A a \in Authors, id \in 1..MaxPosts :
              ( /\ BookmarkCreate(a, id)
                /\ \E b \in db.bookmarks : b.user = a /\ b.post = id ) =>
                  /\ ~ret'.ok
                  /\ db'.bookmarks = db.bookmarks
      ]_vars

\* A Bookmark.objects.create for a pair that already had a bookmark has
\* raised.
C15_Witness ==
    /\ ret.op = "bookmark"
    /\ ~ret.ok
    /\ BookmarksOf(db, Val(ret.pk)) # {}

\* C17: a Draft created without scheduled_publish_at is stored with
\* scheduled_publish_at = its creation time + 7 days; one created with an
\* explicit scheduled_publish_at is stored with exactly that value.
C17_DraftDefaultSchedule ==
    [][ \A a \in Authors, so \in DraftSchedules :
          DraftCreate(a, so) =>
              /\ ret'.ok
              /\ DraftExists(db', Val(ret'.pk))
              /\ ~DraftExists(db, Val(ret'.pk))
              /\ LET row == DraftRow(db', Val(ret'.pk))
                 IN  /\ row.created_at = clock
                     /\ row.scheduled_publish_at =
                          IF so = None THEN Some(row.created_at + SevenDays) ELSE so
      ]_vars

\* Two drafts are stored, one with the default computed after the clock
\* advanced and one with the explicit date.
C17_Witness ==
    /\ ret.op = "draftCreate"
    /\ ret.ok
    /\ \E r1, r2 \in db.drafts :
          /\ r1.created_at = 1
          /\ r1.scheduled_publish_at = Some(1 + SevenDays)
          /\ r2.scheduled_publish_at = Some(3)

\* C18: a later save of a stored Draft leaves scheduled_publish_at at the
\* value the saved instance carried (the stored one, or the one the caller
\* assigned, None when the caller cleared it): it is never replaced by a
\* newly computed now + 7 days.
C18_DraftDefaultOnlyAtCreation ==
    [][ \A id \in 1..MaxDrafts, st \in DraftStatuses, c \in DraftContents,
           so \in ScheduleValues :
          DraftUpdate(id, st, c, so) =>
              DraftRow(db', id).scheduled_publish_at = so
      ]_vars

\* Walking up from comment x along parent reaches comment c in at most n
\* steps.
RECURSIVE ReachesUp(_, _, _, _)
ReachesUp(d, x, c, n) ==
    \/ x.id = c.id
    \/ /\ n > 0
       /\ x.parent # None
       /\ \E y \in d.comments : y.id = Val(x.parent) /\ ReachesUp(d, y, c, n - 1)

\* Comment c with its direct and transitive replies.
Thread(d, c) == { x \in d.comments : ReachesUp(d, x, c, Cardinality(d.comments)) }

\* C19: comment.delete() removes the comment and all of its direct and
\* transitive replies, and no other comment.
C19_CommentThreadCascade ==
    [][ \A c \in db.comments :
          CommentDelete(c.id) =>
              /\ ret'.ok
              /\ db'.comments = db.comments \ Thread(db, c)
      ]_vars

\* One delete() has removed three of the four comments ever stored (the
\* comment and two replies below it), and the fourth is still stored.
C19_Witness ==
    /\ ret.op = "commentDelete"
    /\ ret.ok
    /\ ret.deleted = 3
    /\ db.nextComment = 5
    /\ Cardinality(db.comments) = 1

\* C20: every Comment with a parent belongs to the post of its parent, and
\* no Comment is reached by walking up from its own parent.
C20_CommentForest ==
    \A c \in db.comments :
        c.parent # None =>
            \A y \in db.comments :
                y.id = Val(c.parent) =>
                    /\ y.post = c.post
                    /\ ~ReachesUp(db, y, c, Cardinality(db.comments))

\* The ids of the authors of user uid.
OwnedAuthors(d, uid) == { a.id : a \in AuthorsOfUser(d, uid) }

\* C21: a step that deletes a User leaves stored no Author of that User and
\* no Post, Draft, Bookmark or Notification of such an Author, and none of
\* the Comments such an Author had written, on whichever post.
C21_UserDeleteCascades ==
    [][\A uid \in 1..MaxUsers :
         (UserExists(db, uid) /\ ret'.op = "userDelete" /\ ret'.ok
            /\ ret'.pk = Some(uid)) =>
           LET owners == OwnedAuthors(db, uid)
           IN  /\ \A a \in db'.authors : a.id \notin owners
               /\ \A r \in db'.posts : r.author \notin owners
               /\ \A r \in db'.drafts : r.author \notin owners
               /\ \A b \in db'.bookmarks : b.user \notin owners
               /\ \A n \in db'.notifications : n.recipient \notin owners
               /\ \A c \in db.comments :
                    (c.author # None /\ Val(c.author) \in owners) =>
                        ~\E x \in db'.comments : x.id = c.id]_vars

C23_OneAuthorPerUser ==
    [][/\ \A u \in db'.users : Cardinality(AuthorsOfUser(db', u.id)) <= 1
       /\ \A uid \in 1..MaxUsers :
            (AuthorCreate(uid) /\ AuthorsOfUser(db, uid) # {}) =>
                ~ret'.ok /\ db' = db]_vars

\* Author.objects.create for a User that has an Author has raised.
C23_Witness ==
    /\ ret.op = "authorCreate"
    /\ ~ret.ok
    /\ AuthorsOfUser(db, Val(ret.pk)) # {}

\* C24: after every step no two Users have the same email, and a step that
\* creates a User with a stored email raises and adds neither a User nor an
\* Author.
C24_EmailUnique ==
    [][/\ \A u, w \in db'.users : u.email = w.email => u.id = w.id
       /\ \A e \in Emails, pw \in Plaintexts :
            (UserCreate(e, pw) /\ \E u \in db.users : u.email = e) =>
                /\ ~ret'.ok
                /\ db'.users = db.users
                /\ db'.authors = db.authors]_vars

\* User.objects.create with the email of the one stored User has raised;
\* that User and its Author are the only rows.
C24_Witness ==
    /\ ret.op = "userCreate"
    /\ ~ret.ok
    /\ Cardinality(db.users) = 1
    /\ Cardinality(db.authors) = 1

\* C25: a step that creates a User stores the hash of the password given;
\* a step that saves a stored User stores the hash of the plaintext the
\* caller assigned, or leaves the stored hash when none was assigned.
C25_PasswordHashedOnSave ==
    [][/\ \A e \in Emails, pw \in Plaintexts :
            (UserCreate(e, pw) /\ ret'.ok) =>
                UserRow(db', Val(ret'.pk)).password = make_password(Plain(pw))
       /\ \A uid \in 1..MaxUsers :
            UserExists(db, uid) =>
              \A i \in UserInstances(uid) :
                (ret'.op = "userSave" /\ ret'.ok /\ db' = User_save(db, i).db) =>
                    /\ UserRow(db', uid).password.layers = 1
                    /\ UserRow(db', uid).password.text = i.password.text]_vars

\* The rows of the responses of both listings.
ListedRows(d) ==
    { s[k] : s \in blog_list_raw(d) \cup blog_list_orm(d), k \in 1..Cardinality(Selected(d)) }

\* C27: in every store state blog_list_raw and blog_list_orm give the same
\* responses: the posts whose author's email is the filter email, newest
\* first, each with version_title null or the title of a version of that
\* post.
C27_QueryStrategiesEquivalent ==
    /\ blog_list_raw(db) = blog_list_orm(db)
    /\ \A s \in blog_list_raw(db) :
         { s[k].id : k \in DOMAIN s } = { p.id : p \in Selected(db) }
    /\ \A r \in ListedRows(db) :
         r.version_title # None =>
            \E v \in db.versions : v.post = r.id /\ v.title = Val(r.version_title)

\* C26: after every step a published PostSchedule has published_at set and
\* a newly created unpublished one has it null; across every step
\* published_at changes only where is_published goes from false to true,
\* is set there, and once set keeps its value.
C26_PublishedAtSetOnce ==
    [][\A x \in db'.schedules :
         /\ x.is_published => x.published_at # None
         /\ (~\E s \in db.schedules : s.id = x.id) =>
                (~x.is_published => x.published_at = None)
         /\ \A s \in db.schedules :
              s.id = x.id =>
                /\ (~s.is_published /\ x.is_published) =>
                       s.published_at = None /\ x.published_at # None
                /\ s.published_at # None => x.published_at = s.published_at
                /\ x.published_at # s.published_at =>
                       ~s.is_published /\ x.is_published]_vars

\* C28: across every step of post creation, post update and version
\* removal, a PostVersion that stays stored keeps its title, content,
\* version_number and post.
C28_VersionsImmutable ==
    [][\A v \in db.versions : \A w \in db'.versions :
         w.id = v.id =>
            /\ w.title = v.title
            /\ w.content = v.content
            /\ w.version_number = v.version_number
            /\ w.post = v.post]_vars

\* C29: the notification_type of every stored Notification is one of the
\* declared values comment, like, follow, bookmark, share.
C29_NotificationTypeDeclared ==
    \A n \in db.notifications : n.notification_type \in NOTIFICATION_TYPES

\* C30: during the life of a client address's cache entry at most 100 of
\* the requests carrying that address are forwarded to the handler, however
\* the workers interleave; a step that answers 429 leaves the cache and the
\* count of forwarded requests as they were.
C30_RateLimitBound ==
    [][/\ \A ip \in ClientIps : http'.forwarded[ip] <= rate_limit
       /\ \A p \in Procs :
            Limited(p) => cache' = cache /\ http'.forwarded = http.forwarded]_vars

====
